---- MODULE Spec2Model ----
(***************************************************************************)
(* Listing lifecycle of one Product of Auto-Market-Backend across its two  *)
(* marketplaces (eBay and Amazon).                                         *)
(*                                                                         *)
(* State: the persisted Product row, the listings that are live on each    *)
(* marketplace, and the request being answered (the saves and the platform *)
(* calls its handler made, in program order, and the result it returns),   *)
(* and the price of the price update answered just before it, if any.      *)
(* bought holds the listings a customer bought on a marketplace.           *)
(* Every handler action is one request handler, run to completion; Respond *)
(* hands its response to the client, after which the next request is       *)
(* taken.                                                                  *)
(***************************************************************************)
EXTENDS Integers, Sequences, FiniteSets, TLC

VARIABLES db, live, nextId, last, run, prior, bought

vars == <<db, live, nextId, last, run, prior, bought>>

(* ------------------------------ bounds --------------------------------- *)
\* listing ids a marketplace hands out are 1..MaxListingId, each at most once
MaxListingId == 2
\* prices an admin can enter are 1..MaxPrice
MaxPrice == 1

(* ----------------------------- vocabulary ------------------------------ *)
Null == 0
Platforms == {"EBAY", "AMAZON"}
Other(p) == IF p = "EBAY" THEN "AMAZON" ELSE "EBAY"
Prices == 1..MaxPrice
\* Product.estimated_value is a required positive decimal
estimated_value == 1
\* timezone.now() at the moment of a sale
Now == 1

\* Product.LISTING_STATUS_CHOICES
LISTING_STATUS_CHOICES ==
    {"PENDING", "APPROVED", "LISTED", "EBAY_SOLD", "AMAZON_SOLD", "REMOVED", "REJECTED"}
\* values DualMarketplaceService._update_product_status stores besides the choices
DualOnlyStatuses == {"EBAY_ONLY", "AMAZON_ONLY", "FAILED"}

SoldStatus(p) == IF p = "EBAY" THEN "EBAY_SOLD" ELSE "AMAZON_SOLD"
SoldStatuses == {"EBAY_SOLD", "AMAZON_SOLD"}

\* outcomes of one CreateListing / EndListing round trip to a marketplace
CreateOutcomes == {"ok", "fail", "raise"}
EndOutcomes == {"ok", "fail", "raise"}
\* values a client can send as final_price; 0 also stands for a missing field
PriceInputs == (0 - 1)..MaxPrice

\* The Product row as created by a submission (models.py field defaults)
NewProduct ==
    [listing_status      |-> "PENDING",
     ebay_listing_id     |-> Null,
     ebay_listing_url    |-> Null,
     amazon_listing_id   |-> Null,
     amazon_listing_url  |-> Null,
     final_listing_price |-> Null,
     sold_platform       |-> "-",
     sold_price          |-> Null,
     sold_at             |-> Null]

ListingId(rec, p) == IF p = "EBAY" THEN rec.ebay_listing_id ELSE rec.amazon_listing_id
ListingUrl(rec, p) == IF p = "EBAY" THEN rec.ebay_listing_url ELSE rec.amazon_listing_url

(* ------------------------- execution context --------------------------- *)
\* One handler run: mem is the in-memory Product instance, row the row as the
\* handler's database connection sees it, db the committed row other readers
\* see, ev the log of saves and platform calls in program order.
\* An event carries the committed row at that moment (rec) and, for a platform
\* call that sends a price, the price sent and the instance's
\* final_listing_price at the call (price, fp).
Ev(t, p, ok, id, rec) ==
    [t |-> t, p |-> p, ok |-> ok, id |-> id, rec |-> rec, price |-> Null, fp |-> Null]

\* the price every CreateListing call site sends:
\* product.final_listing_price or product.estimated_value
ListingPrice(mem) ==
    IF mem.final_listing_price # Null THEN mem.final_listing_price ELSE estimated_value

\* a run on instance mem against committed row row, live listings lv and next
\* listing id nid
BeginAt(mem, row, lv, nid, intx) ==
    [mem |-> mem, row |-> row, db |-> row, live |-> lv, nid |-> nid,
     intx |-> intx, ev |-> <<>>]

\* a run whose instance mem was loaded earlier, against the row as it is now
BeginWith(mem, intx) == BeginAt(mem, db, live, nextId, intx)

Begin(intx) == BeginWith(db, intx)

\* Model.save(): writes every field of the instance; inside transaction.atomic()
\* the write is not visible to other readers before the block exits
Save(c) ==
    LET d == IF c.intx THEN c.db ELSE c.mem
    IN [c EXCEPT !.row = c.mem, !.db = d,
                 !.ev = Append(c.ev, Ev("save", "-", TRUE, Null, d))]

\* leaving the transaction.atomic() block without an exception
Commit(c) ==
    [c EXCEPT !.db = c.row, !.intx = FALSE,
              !.ev = Append(c.ev, Ev("commit", "-", TRUE, Null, c.row))]

\* a CreateListing round trip on marketplace p; on "ok" the marketplace
\* publishes a new listing and returns its id
CallCreate(c, p, o) ==
    LET e == [Ev("create", p, o = "ok", IF o = "ok" THEN c.nid ELSE Null, c.db)
                 EXCEPT !.price = ListingPrice(c.mem),
                        !.fp = c.mem.final_listing_price]
    IN IF o = "ok"
       THEN [c EXCEPT !.live[p] = @ \cup {c.nid}, !.nid = c.nid + 1,
                      !.ev = Append(c.ev, e)]
       ELSE [c EXCEPT !.ev = Append(c.ev, e)]

\* an EndListing round trip on marketplace p for listing id
CallEnd(c, p, id, o) ==
    IF o = "ok"
    THEN [c EXCEPT !.live[p] = @ \ {id},
                   !.ev = Append(c.ev, Ev("end", p, TRUE, id, c.db))]
    ELSE [c EXCEPT !.ev = Append(c.ev, Ev("end", p, FALSE, id, c.db))]

\* an UpdatePrice round trip on marketplace p for listing id (the request of
\* update_listing_price, lines 1034-1057)
CallUpdate(c, p, id, new_price, o) ==
    [c EXCEPT !.ev = Append(c.ev, [Ev("update", p, o = "ok", id, c.db)
                                      EXCEPT !.price = new_price,
                                             !.fp = c.mem.final_listing_price])]

\* id returned by the last successful CreateListing of the run
LastCreated(c) == c.nid - 1

(* ------------------------------ results -------------------------------- *)
\* what a handler returns: overall success, the aggregate status it names, the
\* per-platform results ("ok", "fail", or "none" when the platform has no entry)
\* and the platforms named in its error list
Result(success, status, ebay, amazon, errors) ==
    [success |-> success, status |-> status, ebay |-> ebay, amazon |-> amazon,
     errors |-> errors]

NoResult == Result(FALSE, "-", "none", "none", <<>>)

OkFail(b) == IF b THEN "ok" ELSE "fail"

NoCmd ==
    [op |-> "none", entry |-> "none", plat |-> "-", price |-> Null,
     accepted |-> FALSE, pre |-> NewProduct, ev |-> <<>>, res |-> NoResult]

Cmd(op, entry, plat, price, accepted, c, res) ==
    [op |-> op, entry |-> entry, plat |-> plat, price |-> price,
     accepted |-> accepted, pre |-> db, ev |-> c.ev, res |-> res]

\* no request is being answered: the next handler can run
Idle == last = NoCmd

\* the handler's run becomes the next state
Apply(c, cmd) ==
    /\ db' = c.db
    /\ live' = c.live
    /\ nextId' = c.nid
    /\ last' = cmd
    /\ UNCHANGED <<run, prior, bought>>

\* a marketplace can only answer "ok" to CreateListing while it has ids left
CanCreate(n) == nextId + n - 1 <= MaxListingId

\* the two request workers of the concurrent specification, both without a
\* request
Workers == {"w1", "w2"}
NoRequest ==
    [pc |-> "idle", entry |-> "none", plat |-> "-", price |-> Null,
     accepted |-> FALSE, mem |-> NewProduct]
NoRun == [start |-> NewProduct, w |-> [w \in Workers |-> NoRequest]]

Init ==
    /\ db = NewProduct
    /\ live = [p \in Platforms |-> {}]
    /\ nextId = 1
    /\ last = NoCmd
    /\ run = NoRun
    /\ prior = Null
    /\ bought = [p \in Platforms |-> {}]

(* ---------------- DualMarketplaceService (dual_marketplace_service.py) --- *)
\* _list_on_ebay: EbayAPIService.create_listing returns no 'listing_url' key, so
\* after a successful create the id is assigned to the instance and the next
\* line raises KeyError; the except branch reports failure, nothing is saved
\* here
DualListOnEbay(c, eo) ==
    IF eo = "ok"
    THEN LET c1 == CallCreate(c, "EBAY", "ok")
         IN [c |-> [c1 EXCEPT !.mem.ebay_listing_id = LastCreated(c1)], ok |-> FALSE]
    ELSE [c |-> CallCreate(c, "EBAY", eo), ok |-> FALSE]

\* _list_on_amazon
DualListOnAmazon(c, ao) ==
    IF ao = "ok"
    THEN LET c1 == CallCreate(c, "AMAZON", "ok")
             c2 == [c1 EXCEPT !.mem.amazon_listing_id = LastCreated(c1),
                              !.mem.amazon_listing_url = LastCreated(c1)]
         IN [c |-> Save(c2), ok |-> TRUE]
    ELSE [c |-> CallCreate(c, "AMAZON", ao), ok |-> FALSE]

\* _update_product_status
DualUpdateProductStatus(c, ebay_success, amazon_success) ==
    LET st == IF ebay_success /\ amazon_success THEN "LISTED"
              ELSE IF ebay_success THEN "EBAY_ONLY"
              ELSE IF amazon_success THEN "AMAZON_ONLY"
              ELSE "FAILED"
    IN Save([c EXCEPT !.mem.listing_status = st])

\* the aggregate result list_product_both_platforms builds (lines 66-89)
DualListResult(ebay_success, amazon_success) ==
    IF ebay_success /\ amazon_success
    THEN Result(TRUE, "LISTED_BOTH", "ok", "ok", <<>>)
    ELSE IF ebay_success \/ amazon_success
    THEN Result(TRUE, "LISTED_PARTIAL", OkFail(ebay_success), OkFail(amazon_success),
                (IF ~ebay_success THEN <<"EBAY">> ELSE <<>>)
                \o (IF ~amazon_success THEN <<"AMAZON">> ELSE <<>>))
    ELSE Result(FALSE, "FAILED", "fail", "fail", <<"EBAY", "AMAZON">>)

\* list_product_both_platforms, after the APPROVED guard
DualListRun(c, eo, ao) ==
    LET e == DualListOnEbay(c, eo)
        a == DualListOnAmazon(e.c, ao)
    IN [c |-> DualUpdateProductStatus(a.c, e.ok, a.ok),
        res |-> DualListResult(e.ok, a.ok)]

\* _unlist_from_ebay: self.ebay_api is an EbayAPIService, which defines no
\* end_listing; the attribute lookup raises before any request is sent and the
\* except branch reports failure
DualUnlistFromEbay(c) == [c |-> c, ok |-> FALSE]

\* _unlist_from_amazon
DualUnlistFromAmazon(c, o) ==
    LET c1 == CallEnd(c, "AMAZON", c.mem.amazon_listing_id, o)
    IN IF o = "ok"
       THEN [c |-> Save([c1 EXCEPT !.mem.amazon_listing_id = Null,
                                   !.mem.amazon_listing_url = Null]),
             ok |-> TRUE]
       ELSE [c |-> c1, ok |-> FALSE]

\* unlist_product_both_platforms (no guard on the current status)
DualUnlistRun(c, ao) ==
    LET e == IF c.mem.ebay_listing_id # Null
             THEN DualUnlistFromEbay(c) ELSE [c |-> c, ok |-> TRUE]
        a == IF e.c.mem.amazon_listing_id # Null
             THEN DualUnlistFromAmazon(e.c, ao) ELSE [c |-> e.c, ok |-> TRUE]
    IN [c |-> Save([a.c EXCEPT !.mem.listing_status = "REMOVED"]),
        res |-> Result(TRUE, "-", OkFail(e.ok), OkFail(a.ok), <<>>)]

\* Product.mark_sold as it would be if it dropped the sale price
ProductMarkSold_NoPrice(c, platform, sale_price) ==
    Save([c EXCEPT !.mem.listing_status = SoldStatus(platform),
                   !.mem.sold_platform = platform,
                   !.mem.sold_at = Now])

\* Product.mark_sold
ProductMarkSold(c, platform, sale_price) ==
    LET m1 == [c.mem EXCEPT !.listing_status = SoldStatus(platform),
                            !.sold_platform = platform]
        m2 == IF sale_price # Null THEN [m1 EXCEPT !.sold_price = sale_price] ELSE m1
    IN Save([c EXCEPT !.mem = [m2 EXCEPT !.sold_at = Now]])

\* mark_sold_and_unlist_other as it would be if the sale were stored only once
\* the other marketplace's listing has been ended
DualMarkSoldRun_UnlistFirst(c, sold_platform, sale_price, o) ==
    IF sold_platform = "EBAY" /\ c.mem.amazon_listing_id # Null
    THEN LET a == DualUnlistFromAmazon(c, o)
         IN IF a.ok
            THEN [c |-> ProductMarkSold(a.c, sold_platform, sale_price),
                  res |-> Result(TRUE, "-", "none", "ok", <<>>)]
            ELSE [c |-> a.c, res |-> Result(TRUE, "-", "none", "fail", <<>>)]
    ELSE IF sold_platform = "AMAZON" /\ c.mem.ebay_listing_id # Null
    THEN LET e == DualUnlistFromEbay(c)
         IN IF e.ok
            THEN [c |-> ProductMarkSold(e.c, sold_platform, sale_price),
                  res |-> Result(TRUE, "-", "ok", "none", <<>>)]
            ELSE [c |-> e.c, res |-> Result(TRUE, "-", "fail", "none", <<>>)]
    ELSE [c |-> ProductMarkSold(c, sold_platform, sale_price),
          res |-> Result(TRUE, "-", "none", "none", <<>>)]

\* mark_sold_and_unlist_other (no guard on the current status)
DualMarkSoldRun(c, sold_platform, sale_price, o) ==
    LET c1 == ProductMarkSold(c, sold_platform, sale_price)
    IN IF sold_platform = "EBAY" /\ c1.mem.amazon_listing_id # Null
       THEN LET a == DualUnlistFromAmazon(c1, o)
            IN [c |-> a.c, res |-> Result(TRUE, "-", "none", OkFail(a.ok), <<>>)]
       ELSE IF sold_platform = "AMAZON" /\ c1.mem.ebay_listing_id # Null
       THEN LET e == DualUnlistFromEbay(c1)
            IN [c |-> e.c, res |-> Result(TRUE, "-", OkFail(e.ok), "none", <<>>)]
       ELSE [c |-> c1, res |-> Result(TRUE, "-", "none", "none", <<>>)]

(* ------------------ MarketplaceService (marketplace_service.py) ---------- *)
\* list_product_on_platform, eBay branch (lines 732-897): tok says whether a valid
\* EBayUserToken was found; a product that already has an eBay url is reported
\* as listed without a call
MsListOnEbay(c, tok, eo) ==
    IF ~tok THEN [c |-> c, ok |-> FALSE]
    ELSE IF c.mem.ebay_listing_url # Null THEN [c |-> c, ok |-> TRUE]
    ELSE IF eo = "ok"
    THEN LET c1 == CallCreate(c, "EBAY", "ok")
         IN [c |-> [c1 EXCEPT !.mem.ebay_listing_id = LastCreated(c1),
                              !.mem.ebay_listing_url = LastCreated(c1)],
             ok |-> TRUE]
    ELSE [c |-> CallCreate(c, "EBAY", eo), ok |-> FALSE]

\* list_product_on_platform, Amazon branch (lines 899-934)
MsListOnAmazon(c, ao) ==
    IF ao = "ok"
    THEN LET c1 == CallCreate(c, "AMAZON", "ok")
         IN [c |-> [c1 EXCEPT !.mem.amazon_listing_id = LastCreated(c1),
                              !.mem.amazon_listing_url = LastCreated(c1)],
             ok |-> TRUE]
    ELSE [c |-> CallCreate(c, "AMAZON", ao), ok |-> FALSE]

\* list_product_on_platform, status update (lines 936-947)
MsListStatus(status, platform, ebay_ok, amazon_ok) ==
    IF platform = "BOTH"
    THEN IF ebay_ok \/ amazon_ok THEN "LISTED" ELSE "APPROVED"
    ELSE IF (platform = "EBAY" /\ ebay_ok) \/ (platform = "AMAZON" /\ amazon_ok)
         THEN "LISTED" ELSE status

\* list_product_on_platform
MsListProductOnPlatform(c, platform, tok, eo, ao) ==
    LET onE == platform \in {"EBAY", "BOTH"}
        onA == platform \in {"AMAZON", "BOTH"}
        e == IF onE THEN MsListOnEbay(c, tok, eo) ELSE [c |-> c, ok |-> FALSE]
        a == IF onA THEN MsListOnAmazon(e.c, ao) ELSE [c |-> e.c, ok |-> FALSE]
        st == MsListStatus(a.c.mem.listing_status, platform, e.ok, a.ok)
    IN [c |-> Save([a.c EXCEPT !.mem.listing_status = st]),
        res |-> Result(TRUE, "-",
                       IF onE THEN OkFail(e.ok) ELSE "none",
                       IF onA THEN OkFail(a.ok) ELSE "none",
                       (IF onE /\ ~e.ok THEN <<"EBAY">> ELSE <<>>)
                       \o (IF onA /\ ~a.ok THEN <<"AMAZON">> ELSE <<>>))]

\* _unlist_from_ebay (lines 1217-1283): without a valid token no request is sent
MsUnlistFromEbay(c, tok, o) ==
    IF ~tok THEN [c |-> c, ok |-> FALSE]
    ELSE [c |-> CallEnd(c, "EBAY", c.mem.ebay_listing_id, o), ok |-> (o = "ok")]

\* unlist_product_from_platform: the eBay listing is ended through the API; for
\* Amazon no request is made and success is reported
MsUnlistProductFromPlatform(c, platform, tok, o) ==
    IF platform \in {"EBAY", "BOTH"} /\ c.mem.ebay_listing_id # Null
    THEN MsUnlistFromEbay(c, tok, o)
    ELSE [c |-> c, ok |-> TRUE]

\* a variant whose eBay client can hand out a token and whose price request is
\* refused and sent again
MsUpdateListingPrice_Retry(c, new_price, platform) ==
    LET onE == platform \in {"EBAY", "BOTH"} /\ c.mem.ebay_listing_id # Null
        onA == platform \in {"AMAZON", "BOTH"} /\ c.mem.amazon_listing_id # Null
        c1 == CallUpdate(c, "EBAY", c.mem.ebay_listing_id, new_price, "fail")
    IN [c |-> IF onE
              THEN CallUpdate(c1, "EBAY", c.mem.ebay_listing_id, new_price, "fail")
              ELSE c,
        ebay |-> IF onE THEN "fail" ELSE "none",
        amazon |-> IF onA THEN "ok" ELSE "none"]

\* update_listing_price: the eBay branch starts with self.ebay.get_access_token(),
\* a method eBayService does not have; the AttributeError is caught and reported
\* as an eBay failure before any request is sent.  For Amazon no request is made
\* and success is reported.
MsUpdateListingPrice(c, new_price, platform) ==
    LET onE == platform \in {"EBAY", "BOTH"} /\ c.mem.ebay_listing_id # Null
        onA == platform \in {"AMAZON", "BOTH"} /\ c.mem.amazon_listing_id # Null
    IN [c |-> c,
        ebay |-> IF onE THEN "fail" ELSE "none",
        amazon |-> IF onA THEN "ok" ELSE "none"]

(* ------------------------ admin_views.py handlers ------------------------ *)
\* a variant of valid_transitions that lets a listed product be rejected
valid_transitions_RejectListed(status) ==
    CASE status = "PENDING"  -> {"approve", "reject", "list"}
      [] status = "APPROVED" -> {"list", "reject"}
      [] status = "LISTED"   -> {"unlist", "ebay_sold", "amazon_sold", "list", "reject"}
      [] status = "REJECTED" -> {"approve", "list"}
      [] status = "REMOVED"  -> {"approve", "list"}
      [] OTHER               -> {}

\* valid_transitions of admin_product_update_status
valid_transitions(status) ==
    CASE status = "PENDING"  -> {"approve", "reject", "list"}
      [] status = "APPROVED" -> {"list", "reject"}
      [] status = "LISTED"   -> {"unlist", "ebay_sold", "amazon_sold", "list"}
      [] status = "REJECTED" -> {"approve", "list"}
      [] status = "REMOVED"  -> {"approve", "list"}
      [] OTHER               -> {}

AdminActions == {"approve", "reject", "list", "unlist", "ebay_sold", "amazon_sold"}

\* action == 'list' (lines 332-349)
AdminListRun(c, listing_price, tok, eo, ao) ==
    LET fp == IF listing_price # Null THEN listing_price
              ELSE IF c.mem.final_listing_price = Null THEN estimated_value
              ELSE c.mem.final_listing_price
        r == MsListProductOnPlatform([c EXCEPT !.mem.final_listing_price = fp],
                                     "BOTH", tok, eo, ao)
    IN Commit(Save([r.c EXCEPT !.mem.listing_status = "LISTED"]))

\* action == 'unlist' (lines 351-362)
AdminUnlistRun(c, tok, o) ==
    LET r == MsUnlistProductFromPlatform(c, "BOTH", tok, o)
    IN Commit(Save([r.c EXCEPT !.mem.listing_status = "REMOVED",
                               !.mem.ebay_listing_id = Null,
                               !.mem.amazon_listing_id = Null,
                               !.mem.ebay_listing_url = Null,
                               !.mem.amazon_listing_url = Null]))

\* action in ('ebay_sold', 'amazon_sold') (lines 364-393)
AdminSoldRun(c, platform, sold_price, tok, o) ==
    LET c1 == [c EXCEPT !.mem.listing_status = SoldStatus(platform),
                        !.mem.sold_platform = platform]
        c2 == IF platform = "EBAY"
              THEN IF c1.mem.amazon_listing_id # Null
                   THEN LET r == MsUnlistProductFromPlatform(c1, "AMAZON", tok, o)
                        IN [r.c EXCEPT !.mem.amazon_listing_id = Null,
                                       !.mem.amazon_listing_url = Null]
                   ELSE c1
              ELSE IF c1.mem.ebay_listing_id # Null
                   THEN LET r == MsUnlistProductFromPlatform(c1, "EBAY", tok, o)
                        IN [r.c EXCEPT !.mem.ebay_listing_id = Null,
                                       !.mem.ebay_listing_url = Null]
                   ELSE c1
        c3 == IF sold_price # Null THEN [c2 EXCEPT !.mem.sold_price = sold_price] ELSE c2
    IN Commit(Save([c3 EXCEPT !.mem.sold_at = Now]))

\* action in ('approve', 'reject') (lines 324-330)
AdminSetStatusRun(c, status) ==
    Commit(Save([c EXCEPT !.mem.listing_status = status]))

AdminResult(c) == Result(TRUE, c.db.listing_status, "none", "none", <<>>)

\* admin_product_update_status, an action the current status does not allow
AdminStatusRejected ==
    /\ Idle
    /\ \E action \in AdminActions \ valid_transitions(db.listing_status) :
        Apply(Begin(FALSE),
              Cmd(IF action \in {"ebay_sold", "amazon_sold"} THEN "markSold" ELSE action,
                  "admin_status",
                  IF action = "ebay_sold" THEN "EBAY"
                  ELSE IF action = "amazon_sold" THEN "AMAZON" ELSE "-",
                  Null, FALSE, Begin(FALSE), NoResult))

\* admin_product_update_status, action approve or reject
AdminApproveReject ==
    /\ Idle
    /\ \E action \in {"approve", "reject"} \cap valid_transitions(db.listing_status) :
        LET c == AdminSetStatusRun(Begin(TRUE),
                                   IF action = "approve" THEN "APPROVED" ELSE "REJECTED")
        IN Apply(c, Cmd(action, "admin_status", "-", Null, TRUE, c, AdminResult(c)))

\* admin_product_update_status, action list
AdminList ==
    /\ Idle
    /\ "list" \in valid_transitions(db.listing_status)
    /\ \E listing_price \in Prices \cup {Null}, tok \in BOOLEAN,
          eo \in CreateOutcomes, ao \in CreateOutcomes :
        /\ CanCreate((IF eo = "ok" THEN 1 ELSE 0) + (IF ao = "ok" THEN 1 ELSE 0))
        /\ LET c == AdminListRun(Begin(TRUE), listing_price, tok, eo, ao)
           IN Apply(c, Cmd("list", "admin_status", "BOTH", listing_price, TRUE, c,
                           AdminResult(c)))

\* admin_product_update_status, action unlist
AdminUnlist ==
    /\ Idle
    /\ "unlist" \in valid_transitions(db.listing_status)
    /\ \E tok \in BOOLEAN, o \in EndOutcomes :
        LET c == AdminUnlistRun(Begin(TRUE), tok, o)
        IN Apply(c, Cmd("unlist", "admin_status", "BOTH", Null, TRUE, c, AdminResult(c)))

\* admin_product_update_status, action ebay_sold or amazon_sold; the serializer
\* requires a sold_price
AdminSold ==
    /\ Idle
    /\ \E platform \in Platforms, sold_price \in Prices, tok \in BOOLEAN, o \in EndOutcomes :
        /\ (IF platform = "EBAY" THEN "ebay_sold" ELSE "amazon_sold")
              \in valid_transitions(db.listing_status)
        /\ LET c == AdminSoldRun(Begin(TRUE), platform, sold_price, tok, o)
           IN Apply(c, Cmd("markSold", "admin_status", platform, sold_price, TRUE, c,
                           AdminResult(c)))

\* a variant without validate_final_price
PriceUpdateValid_NoSign(status, final_price) ==
    status \notin SoldStatuses

\* AdminProductPriceUpdateSerializer: final_price is required and positive, and
\* the product is not sold
PriceUpdateValid(status, final_price) ==
    final_price > 0 /\ status \notin SoldStatuses

\* a variant that stores the price only when the eBay listing took it
AdminUpdatePriceRun_SaveOnSuccess(c, final_price) ==
    LET c1 == [c EXCEPT !.mem.final_listing_price = final_price]
        r == IF c1.mem.listing_status = "LISTED" /\ c1.mem.ebay_listing_id # Null
             THEN MsUpdateListingPrice(c1, final_price, "EBAY")
             ELSE [c |-> c1, ebay |-> "none", amazon |-> "none"]
    IN IF r.ebay = "fail" THEN r ELSE [r EXCEPT !.c = Save(r.c)]

\* admin_product_update_price after validation (lines 449-476): the price is
\* saved first, then the eBay listing of a LISTED product is repriced
AdminUpdatePriceRun(c, final_price) ==
    LET c1 == Save([c EXCEPT !.mem.final_listing_price = final_price])
    IN IF c1.mem.listing_status = "LISTED" /\ c1.mem.ebay_listing_id # Null
       THEN MsUpdateListingPrice(c1, final_price, "EBAY")
       ELSE [c |-> c1, ebay |-> "none", amazon |-> "none"]

\* admin_product_update_price
AdminUpdatePrice ==
    /\ Idle
    /\ \E final_price \in PriceInputs :
        IF ~PriceUpdateValid(db.listing_status, final_price)
        THEN Apply(Begin(FALSE),
                   Cmd("reprice", "admin_price", "-", final_price, FALSE, Begin(FALSE),
                       NoResult))
        ELSE LET r == AdminUpdatePriceRun(Begin(FALSE), final_price)
             IN Apply(r.c, Cmd("reprice", "admin_price", "-", final_price, TRUE, r.c,
                               Result(TRUE, r.c.db.listing_status, r.ebay, r.amazon,
                                      <<>>)))

\* list_product_on_marketplace
ListProductOnMarketplace ==
    /\ Idle
    /\ IF db.listing_status # "APPROVED"
       THEN Apply(Begin(FALSE),
                  Cmd("list", "marketplace", "BOTH", Null, FALSE, Begin(FALSE), NoResult))
       ELSE \E platform \in {"EBAY", "AMAZON", "BOTH"}, tok \in BOOLEAN,
               eo \in CreateOutcomes, ao \in CreateOutcomes :
           /\ CanCreate((IF eo = "ok" THEN 1 ELSE 0) + (IF ao = "ok" THEN 1 ELSE 0))
           /\ LET r == MsListProductOnPlatform(Begin(FALSE), platform, tok, eo, ao)
              IN Apply(r.c, Cmd("list", "marketplace", platform, Null, TRUE, r.c, r.res))

\* mark_product_sold as it would be if it stored the status and the price of the
\* sale without its platform and time
MarkProductSoldRun_StatusOnly(c, platform, sale_price) ==
    Save([c EXCEPT !.mem.listing_status = SoldStatus(platform),
                   !.mem.sold_price = sale_price])

\* mark_product_sold: stores the sale, then MarketplaceService.update_inventory,
\* which sends nothing to either marketplace
MarkProductSoldRun(c, platform, sale_price) ==
    Save([c EXCEPT !.mem.listing_status = SoldStatus(platform),
                   !.mem.sold_platform = platform,
                   !.mem.sold_price = sale_price,
                   !.mem.sold_at = Now])

MarkProductSold ==
    /\ Idle
    /\ \E platform \in Platforms, sale_price \in Prices :
        LET c == MarkProductSoldRun(Begin(FALSE), platform, sale_price)
        IN Apply(c, Cmd("markSold", "mark_product_sold", platform, sale_price, TRUE, c,
                        Result(TRUE, "-", "none", "none", <<>>)))

(* --------------------- marketplace_views.py handlers --------------------- *)
\* list_product_dual_marketplace (bulk_list_products runs the same call per id)
ListDual ==
    /\ Idle
    /\ IF db.listing_status # "APPROVED"
       THEN Apply(Begin(FALSE),
                  Cmd("list", "dual", "BOTH", Null, FALSE, Begin(FALSE), NoResult))
       ELSE \E eo \in CreateOutcomes, ao \in CreateOutcomes :
           /\ CanCreate((IF eo = "ok" THEN 1 ELSE 0) + (IF ao = "ok" THEN 1 ELSE 0))
           /\ LET r == DualListRun(Begin(FALSE), eo, ao)
              IN Apply(r.c, Cmd("list", "dual", "BOTH", Null, TRUE, r.c, r.res))

\* unlist_product_dual_marketplace
UnlistDual ==
    /\ Idle
    /\ \E ao \in EndOutcomes :
        LET r == DualUnlistRun(Begin(FALSE), ao)
        IN Apply(r.c, Cmd("unlist", "dual", "BOTH", Null, TRUE, r.c, r.res))

\* mark_sold_cross_unlist
MarkSoldCrossUnlist ==
    /\ Idle
    /\ \E sold_platform \in Platforms, sale_price \in Prices \cup {Null}, o \in EndOutcomes :
        LET r == DualMarkSoldRun(Begin(FALSE), sold_platform, sale_price, o)
        IN Apply(r.c, Cmd("markSold", "dual", sold_platform, sale_price, TRUE, r.c, r.res))

\* the handler returns its Response; the row and the marketplaces stay as the
\* handler left them.  prior remembers the price of an accepted price update
\* for as long as no other request has been answered since.
Respond ==
    /\ ~Idle
    /\ last' = NoCmd
    /\ prior' = IF last.op = "reprice" /\ last.accepted THEN last.price ELSE Null
    /\ UNCHANGED <<db, live, nextId, run, bought>>

(* --------------------------- specification ------------------------------ *)
Next ==
    \/ AdminStatusRejected
    \/ AdminApproveReject
    \/ AdminList
    \/ AdminUnlist
    \/ AdminSold
    \/ ListProductOnMarketplace
    \/ MarkProductSold
    \/ AdminUpdatePrice
    \/ ListDual
    \/ UnlistDual
    \/ MarkSoldCrossUnlist
    \/ Respond

Spec == Init /\ [][Next]_vars

(* ------------------------ ebay_views.py handlers ------------------------- *)
\* ebay_list_product after its status test: without a token 401; the inventory
\* item, the offer and its publication are one CreateListing; on success the
\* listing id is stored in ebay_listing_url (ebay_listing_id is not assigned)
\* and the status LISTED
EbayListProductRun(c, custom_price, tok, eo) ==
    IF ~tok THEN [c |-> c, ok |-> FALSE]
    ELSE IF eo = "ok"
    THEN LET c1 == CallCreate(c, "EBAY", "ok")
         IN [c |-> Save([c1 EXCEPT !.mem.ebay_listing_url = LastCreated(c1),
                                   !.mem.listing_status = "LISTED"]),
             ok |-> TRUE]
    ELSE [c |-> CallCreate(c, "EBAY", eo), ok |-> FALSE]

\* ebay_list_product
ebay_list_product ==
    /\ Idle
    /\ IF db.listing_status \notin {"APPROVED", "PENDING"}
       THEN Apply(Begin(FALSE),
                  Cmd("list", "ebay_views", "EBAY", Null, FALSE, Begin(FALSE), NoResult))
       ELSE \E custom_price \in Prices \cup {Null}, tok \in BOOLEAN, eo \in CreateOutcomes :
           /\ CanCreate(IF tok /\ eo = "ok" THEN 1 ELSE 0)
           /\ LET r == EbayListProductRun(Begin(FALSE), custom_price, tok, eo)
              IN Apply(r.c, Cmd("list", "ebay_views", "EBAY", custom_price, TRUE, r.c,
                                Result(r.ok, "-", OkFail(r.ok), "none",
                                       IF r.ok THEN <<>> ELSE <<"EBAY">>)))

\* ebay_end_listing after its tests: end_listing always returns a dict, which is
\* true whatever it holds, so the status becomes REMOVED on success and on
\* failure; the listing fields are kept
EbayEndListingRun(c, o) ==
    LET c1 == CallEnd(c, "EBAY", c.mem.ebay_listing_url, o)
    IN Save([c1 EXCEPT !.mem.listing_status = "REMOVED"])

\* ebay_end_listing
ebay_end_listing ==
    /\ Idle
    /\ \E tok \in BOOLEAN, o \in EndOutcomes :
        IF db.ebay_listing_url = Null \/ ~tok
        THEN Apply(Begin(FALSE),
                   Cmd("unlist", "ebay_views", "EBAY", Null, FALSE, Begin(FALSE), NoResult))
        ELSE LET c == EbayEndListingRun(Begin(FALSE), o)
             IN Apply(c, Cmd("unlist", "ebay_views", "EBAY", Null, TRUE, c,
                             Result(TRUE, "-", "ok", "none", <<>>)))

(* ----------------------- admin.py (Django admin site) -------------------- *)
\* queryset.update(listing_status=...): one column of the row is written
UpdateStatus(c, status) ==
    Save([c EXCEPT !.mem.listing_status = status])

\* ProductAdmin.mark_as_listed: only APPROVED rows are updated
mark_as_listed ==
    /\ Idle
    /\ LET c == IF db.listing_status = "APPROVED"
                THEN UpdateStatus(Begin(FALSE), "LISTED") ELSE Begin(FALSE)
       IN Apply(c, Cmd("list", "admin_site", "-", Null, db.listing_status = "APPROVED", c,
                       Result(TRUE, "-", "none", "none", <<>>)))

\* ProductAdmin.mark_as_removed: every selected row is updated
mark_as_removed ==
    /\ Idle
    /\ LET c == UpdateStatus(Begin(FALSE), "REMOVED")
       IN Apply(c, Cmd("unlist", "admin_site", "-", Null, TRUE, c,
                       Result(TRUE, "-", "none", "none", <<>>)))

\* SubmissionBatchAdmin.approve_batches -> SubmissionBatch.approve_batch: every
\* product of the batch becomes APPROVED, whatever its status was
approve_batches ==
    /\ Idle
    /\ LET c == UpdateStatus(Begin(FALSE), "APPROVED")
       IN Apply(c, Cmd("approve", "admin_site", "-", Null, TRUE, c,
                       Result(TRUE, "-", "none", "none", <<>>)))

\* every entry point that writes the Product row
NextAll ==
    \/ Next
    \/ ebay_list_product
    \/ ebay_end_listing
    \/ mark_as_listed
    \/ mark_as_removed
    \/ approve_batches

SpecAll == Init /\ [][NextAll]_vars

(* ------------------- two requests for one item at a time ----------------- *)
\* Both mark-sold handlers load the Product without a lock or a version check
\* (get_object_or_404 before transaction.atomic() in admin_product_update_status,
\* Product.objects.get in mark_sold_and_unlist_other) and later save every field
\* of the instance they loaded.  Each request is two steps: the load (with the
\* admin handler's valid_transitions test), and the rest of the handler.
SoldAction(platform) == IF platform = "EBAY" THEN "ebay_sold" ELSE "amazon_sold"

\* an item listed on both platforms, as the admin list action leaves it
ListedBoth ==
    [NewProduct EXCEPT !.listing_status = "LISTED",
                       !.ebay_listing_id = 1, !.ebay_listing_url = 1,
                       !.amazon_listing_id = 2, !.amazon_listing_url = 2,
                       !.final_listing_price = estimated_value]
ListedBothLive == [p \in Platforms |-> IF p = "EBAY" THEN {1} ELSE {2}]

InitConc ==
    /\ db = ListedBoth
    /\ live = ListedBothLive
    /\ nextId = 3
    /\ last = NoCmd
    /\ run = [NoRun EXCEPT !.start = ListedBoth]
    /\ prior = Null
    /\ bought = [p \in Platforms |-> {}]

\* the request's first lines: load the Product; admin_product_update_status
\* answers 400 when the loaded status does not allow the action
ConcLoad ==
    \E w \in Workers, entry \in {"admin_status", "dual"}, plat \in Platforms,
       price \in Prices :
        /\ run.w[w].pc = "idle"
        /\ LET ok == entry = "dual"
                      \/ SoldAction(plat) \in valid_transitions(db.listing_status)
           IN run' = [run EXCEPT !.w[w] =
                         [pc |-> IF ok THEN "loaded" ELSE "done", entry |-> entry,
                          plat |-> plat, price |-> price, accepted |-> ok, mem |-> db]]
        /\ UNCHANGED <<db, live, nextId, last, prior, bought>>

\* the rest of a mark-sold handler, run on the instance it loaded
ConcSoldRun(r, c, tok, o) ==
    IF r.entry = "admin_status"
    THEN AdminSoldRun(c, r.plat, r.price, tok, o)
    ELSE DualMarkSoldRun(c, r.plat, r.price, o).c

ConcFinish ==
    \E w \in Workers, tok \in BOOLEAN, o \in EndOutcomes :
        /\ run.w[w].pc = "loaded"
        /\ LET r == run.w[w]
               c == ConcSoldRun(r, BeginWith(r.mem, r.entry = "admin_status"), tok, o)
           IN /\ db' = c.db
              /\ live' = c.live
              /\ nextId' = c.nid
        /\ run' = [run EXCEPT !.w[w].pc = "done"]
        /\ UNCHANGED <<last, prior, bought>>

NextConc == ConcLoad \/ ConcFinish

SpecConc == InitConc /\ [][NextConc]_vars

(* ------------------- the marketplaces acting on their own ---------------- *)
\* what a marketplace would answer when asked for the status of listing id
GetStatus(p, id) ==
    IF id \in live[p] THEN "ACTIVE"
    ELSE IF id \in bought[p] THEN "SOLD"
    ELSE "ENDED"

\* a marketplace ends a live listing without a request from this system
ExternalEnd ==
    /\ Idle
    /\ \E p \in Platforms : \E id \in live[p] :
        live' = [live EXCEPT ![p] = @ \ {id}]
    /\ UNCHANGED <<db, nextId, last, run, prior, bought>>

\* a customer buys a live listing on a marketplace
ExternalSale ==
    /\ Idle
    /\ \E p \in Platforms : \E id \in live[p] :
        /\ live' = [live EXCEPT ![p] = @ \ {id}]
        /\ bought' = [bought EXCEPT ![p] = @ \cup {id}]
    /\ UNCHANGED <<db, nextId, last, run, prior>>

\* sync_listing_status: the status requests to both marketplaces are commented
\* out; the product is read, nothing is asked and nothing is written
SyncListingStatus ==
    /\ Idle
    /\ Apply(Begin(FALSE),
             Cmd("sync", "sync_status", "BOTH", Null, TRUE, Begin(FALSE),
                 Result(TRUE, "-", "none", "none", <<>>)))

NextSweep ==
    \/ Next
    \/ ExternalEnd
    \/ ExternalSale
    \/ SyncListingStatus

SpecSweep == Init /\ [][NextSweep]_vars

(* ------------------- the platform clients' EndListing -------------------- *)
\* eBayService.end_listing tries three requests in turn.  What eBay can answer:
\* to EndFixedPriceItem (Trading API) Ack Success ("success"), an error whose
\* text holds 'already ended' or 'not found' ("already_ended"), any other answer
\* ("other"), or the request raises; to the offer withdrawal and to the REST end
\* request 200/204 ("ok"), 404 ("not_found"), or the request raises.
TradingAnswers == {"success", "already_ended", "other", "raise"}
RestAnswers == {"ok", "not_found", "raise"}

\* the answers a marketplace can give for a listing that is live / is not
TradingAnswersFor(isLive) ==
    IF isLive THEN {"success", "other", "raise"} ELSE {"already_ended", "other", "raise"}
RestAnswersFor(isLive) ==
    IF isLive THEN RestAnswers ELSE {"not_found", "raise"}

\* eBayService.end_listing: success as soon as one method reports it, failure
\* when all three have not
end_listing(trading, withdraw, rest) ==
    \/ trading \in {"success", "already_ended"}
    \/ withdraw = "ok"
    \/ rest = "ok"

\* AmazonSPAPIService.delete_product_listing: in demo mode success without a
\* request; otherwise the inventory request, where raise_for_status turns every
\* 4xx answer into a failure
delete_product_listing(is_production, http) ==
    ~is_production \/ http = "ok"

ListingIds == 1..MaxListingId

EndCallRecord(p, id, isLive, answers, success) ==
    [op |-> "end", plat |-> p, id |-> id, wasLive |-> isLive, answers |-> answers,
     success |-> success]

InitEnd ==
    /\ db = NewProduct
    /\ live \in [Platforms -> SUBSET ListingIds]
    /\ nextId = MaxListingId + 1
    /\ last = NoCmd
    /\ run = NoRun
    /\ prior = Null
    /\ bought = [p \in Platforms |-> {}]

\* one call of eBayService.end_listing(access_token, listing_id)
EbayEndListing ==
    /\ \E id \in ListingIds :
         LET isLive == id \in live["EBAY"]
         IN \E trading \in TradingAnswersFor(isLive), withdraw \in RestAnswersFor(isLive),
               rest \in RestAnswersFor(isLive) :
             LET ok == end_listing(trading, withdraw, rest)
                 \* the requests after the first success are not sent
                 sent == IF trading \in {"success", "already_ended"}
                         THEN <<trading>>
                         ELSE IF withdraw = "ok" THEN <<trading, withdraw>>
                         ELSE <<trading, withdraw, rest>>
             IN /\ live' = IF ok THEN [live EXCEPT !["EBAY"] = @ \ {id}] ELSE live
                /\ last' = EndCallRecord("EBAY", id, isLive, sent, ok)
    /\ UNCHANGED <<db, nextId, run, prior, bought>>

\* one call of AmazonSPAPIService.delete_product_listing(asin_or_sku)
AmazonDeleteListing ==
    /\ \E id \in ListingIds, is_production \in BOOLEAN :
         LET isLive == id \in live["AMAZON"]
         IN \E http \in RestAnswersFor(isLive) :
             LET ok == delete_product_listing(is_production, http)
             IN /\ live' = IF is_production /\ http = "ok"
                           THEN [live EXCEPT !["AMAZON"] = @ \ {id}] ELSE live
                /\ last' = EndCallRecord("AMAZON", id, isLive,
                                         IF is_production THEN <<http>> ELSE <<>>, ok)
    /\ UNCHANGED <<db, nextId, run, prior, bought>>

NextEnd == EbayEndListing \/ AmazonDeleteListing

SpecEnd == InitEnd /\ [][NextEnd]_vars

(* ============================== properties ============================== *)
\* the spec's LISTED_PARTIAL (A only) as the code stores it
OnlyStatus(p) == IF p = "EBAY" THEN "EBAY_ONLY" ELSE "AMAZON_ONLY"
ListedStatuses == {"LISTED", "EBAY_ONLY", "AMAZON_ONLY"}

PlatResult(res, p) == IF p = "EBAY" THEN res.ebay ELSE res.amazon

\* what the last command did
Events == {last.ev[i] : i \in 1..Len(last.ev)}
CreateOk(p) == \E e \in Events : e.t = "create" /\ e.p = p /\ e.ok
CreateFailed(p) == \E e \in Events : e.t = "create" /\ e.p = p /\ ~e.ok
CreatedIds(p) == {e.id : e \in {x \in Events : x.t = "create" /\ x.p = p /\ x.ok}}
EndCalls(p) == {e \in Events : e.t = "end" /\ e.p = p}

MarkSoldDone == last.op = "markSold" /\ last.accepted
ListDoneOnApproved ==
    last.op = "list" /\ last.accepted /\ last.pre.listing_status = "APPROVED"

\* some list entry point accepts a product in this status
ListAccepted(status) == status = "APPROVED" \/ "list" \in valid_transitions(status)

\* C1: after every executed markSold(X) on an item that had a listing id on the
\* other platform, the persisted status is SOLD_X, whether the other platform's
\* EndListing succeeded, failed, raised or was never sent.
C1_SoldCommitted ==
    (MarkSoldDone /\ ListingId(last.pre, Other(last.plat)) # Null)
        => db.listing_status = SoldStatus(last.plat)

\* C1 witness: a markSold whose EndListing on the other platform failed, with the
\* sale stored
C1_Witness ==
    /\ MarkSoldDone
    /\ ListingId(last.pre, Other(last.plat)) # Null
    /\ \E e \in EndCalls(Other(last.plat)) : ~e.ok
    /\ db.listing_status = SoldStatus(last.plat)

\* C2: in every markSold, whenever an EndListing call is issued the committed row
\* already carries the sold status, the sold platform, the sale time and the
\* sale price of that command.
C2_SoldPersistedBeforeEnd ==
    MarkSoldDone =>
        \A e \in Events :
            e.t = "end" =>
                /\ e.rec.listing_status = SoldStatus(last.plat)
                /\ e.rec.sold_platform = last.plat
                /\ e.rec.sold_at # Null
                /\ (last.price # Null => e.rec.sold_price = last.price)

\* C3: every markSold(X), through any entry point, on an item with a listing id
\* on the other platform Y issues EndListing for that listing, and when the call
\* succeeds Y's listing id is null in the stored record.
C3_OtherListingEnded ==
    (MarkSoldDone /\ ListingId(last.pre, Other(last.plat)) # Null)
        => /\ \E e \in EndCalls(Other(last.plat)) :
                  e.id = ListingId(last.pre, Other(last.plat))
           /\ \A e \in EndCalls(Other(last.plat)) :
                  e.ok => ListingId(db, Other(last.plat)) = Null

\* C4: while the item is sold on X, every listing still live on the other
\* platform is still recorded on the item.  The Product row has no separate
\* "needs manual unlisting" field; the listing id kept on the row is the only
\* persisted trace of a listing that still has to be ended, so a sold item whose
\* other listing is live but no longer recorded is exposed with no flag.
C4_NoDoubleExposure ==
    \A p \in Platforms :
        db.listing_status = SoldStatus(p)
            => \A id \in live[Other(p)] : ListingId(db, Other(p)) = id

\* C5: the sold statuses are terminal: from a sold status no command changes the
\* stored status or the stored sold platform.
C5_SoldTerminal ==
    [][db.listing_status \in SoldStatuses
         => /\ db'.listing_status = db.listing_status
            /\ db'.sold_platform = db.sold_platform]_vars

\* C6 (invariant I2): a listing id is stored for a platform only while the
\* status is LISTED or a partial listing (EBAY_ONLY, AMAZON_ONLY).
C6_IdsOnlyWhileListed ==
    \A p \in Platforms :
        ListingId(db, p) # Null => db.listing_status \in ListedStatuses

\* C7 (invariant I1): while the item is sold on X, the other platform's listing
\* id and url are cleared, or an unlist attempt on it is recorded as failed.  The
\* Product row has no field for unlist attempts; the only record the code makes
\* of one is the per-platform entry in the markSold command's result.
C7_SoldClearsOther ==
    \A p \in Platforms :
        db.listing_status = SoldStatus(p)
            => \/ ListingId(db, Other(p)) = Null /\ ListingUrl(db, Other(p)) = Null
               \/ MarkSoldDone /\ PlatResult(last.res, Other(p)) = "fail"

\* C8 (P3): a list command on an APPROVED item in which CreateListing succeeded
\* on A and failed on B leaves the partial status for A, a listing id for A,
\* none for B, and an error list with exactly one entry, for B.
C8_PartialObservable ==
    \A a \in Platforms :
        (ListDoneOnApproved /\ CreateOk(a) /\ CreateFailed(Other(a)))
            => /\ db.listing_status = OnlyStatus(a)
               /\ ListingId(db, a) # Null
               /\ ListingId(db, Other(a)) = Null
               /\ last.res.errors = <<Other(a)>>

\* C9: a list command on an APPROVED item in which CreateListing failed on both
\* platforms does not mark the item listed: the status stays APPROVED (or the
\* failed-listing status), both listing ids stay null, and a list command is
\* accepted again.
C9_BothFailRetry ==
    (ListDoneOnApproved /\ CreateFailed("EBAY") /\ CreateFailed("AMAZON"))
        => /\ db.listing_status \in {"APPROVED", "FAILED"}
           /\ db.ebay_listing_id = Null /\ db.amazon_listing_id = Null
           /\ ListAccepted(db.listing_status)

\* C10: a list command on an APPROVED item in which CreateListing succeeded on
\* both platforms leaves status LISTED, both listing ids equal to the ids the
\* platforms returned, and reports no platform as failed.
C10_BothSucceedListed ==
    (ListDoneOnApproved /\ CreateOk("EBAY") /\ CreateOk("AMAZON"))
        => /\ db.listing_status = "LISTED"
           /\ \A p \in Platforms : ListingId(db, p) # Null /\ ListingId(db, p) \in CreatedIds(p)
           /\ last.res.success
           /\ last.res.ebay # "fail" /\ last.res.amazon # "fail"

C12_FinalPriceBeforeCreate ==
    \A e \in Events :
        e.t = "create" => (e.fp # Null /\ e.price = e.fp)

\* one request run alone on row: what it stores and whether it is accepted
SerialRun(row, r, tok, o) ==
    IF r.entry = "admin_status"
       /\ SoldAction(r.plat) \notin valid_transitions(row.listing_status)
    THEN [db |-> row, accepted |-> FALSE]
    ELSE [db |-> ConcSoldRun(r, BeginAt(row, row, ListedBothLive, 3,
                                        r.entry = "admin_status"), tok, o).db,
          accepted |-> TRUE]

\* the outcomes of running request a and then request b from row, over every
\* outcome of the platform calls
SerialOutcomes(row, a, b) ==
    {LET x == SerialRun(row, a, t1, o1)
         y == SerialRun(x.db, b, t2, o2)
     IN [db |-> y.db, first |-> x.accepted, second |-> y.accepted] :
       t1 \in BOOLEAN, o1 \in EndOutcomes, t2 \in BOOLEAN, o2 \in EndOutcomes}

BothDone == \A w \in Workers : run.w[w].pc = "done"

\* C13: two mark-sold requests for one item issued at the same time end as if
\* they had run one after the other in some order: the stored row and the
\* acceptance of each request equal those of one of the two serial orders.
C13_Serialized ==
    BothDone =>
        \/ [db |-> db, first |-> run.w["w1"].accepted, second |-> run.w["w2"].accepted]
               \in SerialOutcomes(run.start, run.w["w1"], run.w["w2"])
        \/ [db |-> db, first |-> run.w["w2"].accepted, second |-> run.w["w1"].accepted]
               \in SerialOutcomes(run.start, run.w["w2"], run.w["w1"])

UnlistDone == last.op = "unlist" /\ last.accepted

\* C14: an unlist command on an item in LISTED or a partial listing issues
\* EndListing for the listing of every platform on which the item has a listing
\* id, and leaves the stored status REMOVED whatever the calls answer.
C14_UnlistEndsAll ==
    (UnlistDone /\ last.pre.listing_status \in ListedStatuses)
        => /\ db.listing_status = "REMOVED"
           /\ \A p \in Platforms :
                  ListingId(last.pre, p) # Null
                      => \E e \in EndCalls(p) : e.id = ListingId(last.pre, p)

\* updates the last command sent to marketplace p, each request counted
UpdateCalls(p) ==
    {i \in 1..Len(last.ev) : last.ev[i].t = "update" /\ last.ev[i].p = p}
RepriceDone == last.op = "reprice" /\ last.accepted

\* C15: a price update with a valid amount on an item in LISTED or a partial
\* listing leaves the stored final_listing_price equal to the amount and the
\* stored status as it was, whether the marketplace's price request succeeds,
\* fails or is never sent.
C15_RepriceStored ==
    (RepriceDone /\ last.pre.listing_status \in ListedStatuses)
        => /\ db.final_listing_price = last.price
           /\ db.listing_status = last.pre.listing_status

\* a price update that changed the price of a listed item although the update
\* of its eBay listing failed
C15_Witness ==
    /\ RepriceDone
    /\ last.pre.listing_status = "LISTED"
    /\ last.pre.ebay_listing_id # Null
    /\ last.pre.final_listing_price # last.price
    /\ last.res.ebay = "fail"
    /\ db.final_listing_price = last.price
    /\ db.listing_status = "LISTED"

\* C16: when the same price update is sent twice in a row, the stored
\* final_listing_price equals the price after the first and after the second
\* request, and the second request sends at most one price request to each
\* marketplace.
C16_RepriceTwice ==
    (RepriceDone /\ prior # Null /\ prior = last.price)
        => /\ last.pre.final_listing_price = last.price
           /\ db.final_listing_price = last.price
           /\ \A p \in Platforms : Cardinality(UpdateCalls(p)) <= 1

\* the second of two equal price updates in a row on an item with an eBay
\* listing
C16_Witness ==
    /\ RepriceDone
    /\ prior = last.price
    /\ last.pre.listing_status = "LISTED"
    /\ last.pre.ebay_listing_id # Null
    /\ last.res.ebay = "fail"
    /\ db.final_listing_price = last.price

\* C17: a price update whose amount is zero or negative is refused, sends
\* nothing to a marketplace, saves nothing and leaves the stored row as it was.
C17_BadPriceRejected ==
    (last.op = "reprice" /\ last.price <= 0)
        => /\ ~last.accepted
           /\ last.ev = <<>>
           /\ db = last.pre

\* a refused negative price on a listed item with an eBay listing
C17_Witness ==
    /\ last.op = "reprice"
    /\ last.price < 0
    /\ ~last.accepted
    /\ last.pre.listing_status = "LISTED"
    /\ last.pre.ebay_listing_id # Null
    /\ db = last.pre

\* C18: a price update on an item in LISTED or a partial listing sends a price
\* request to every marketplace on which the item has a listing id and to no
\* marketplace on which it has none.
C18_UpdateEachListed ==
    (RepriceDone /\ last.pre.listing_status \in ListedStatuses)
        => \A p \in Platforms :
               (ListingId(last.pre, p) # Null) <=> (UpdateCalls(p) # {})

\* platforms named in the error list of the last command's result
ErrorPlatforms == {last.res.errors[i] : i \in 1..Len(last.res.errors)}
ListDone == last.op = "list" /\ last.accepted

\* C19: in a list command for both platforms, a CreateListing on eBay that
\* fails or raises is still followed by the CreateListing on Amazon, and every
\* platform whose CreateListing failed is named in the error list of the result
\* the caller receives.
C19_SiblingNotAborted ==
    ListDone
        => /\ (last.plat = "BOTH" /\ CreateFailed("EBAY"))
                  => \E e \in Events : e.t = "create" /\ e.p = "AMAZON"
           /\ \A p \in Platforms : CreateFailed(p) => p \in ErrorPlatforms

\* the statuses after which the lifecycle is over
TerminalStatuses == SoldStatuses \cup {"REJECTED", "REMOVED"}

\* some lifecycle command is accepted on an item with this status:
\* admin_product_update_status by valid_transitions, the two list endpoints on
\* APPROVED, admin_product_update_price on what is not sold; the unlist-dual
\* and mark-sold handlers test no status
CommandAccepted(status) ==
    \/ valid_transitions(status) # {}
    \/ status = "APPROVED"
    \/ \E final_price \in Prices : PriceUpdateValid(status, final_price)
    \/ status \in LISTING_STATUS_CHOICES \cup DualOnlyStatuses

\* C20: whatever commands ran and whatever the marketplaces answered, the stored
\* status is one of the declared statuses (Product.LISTING_STATUS_CHOICES), and
\* it is terminal or a status on which some lifecycle command is accepted.
C20_WellDefinedState ==
    /\ db.listing_status \in LISTING_STATUS_CHOICES
    /\ \/ db.listing_status \in TerminalStatuses
       \/ CommandAccepted(db.listing_status)

SweepDone == last.op = "sync" /\ last.accepted

\* C21: one sweep over an item in LISTED whose Amazon listing the marketplace
\* reports as ended, while its eBay listing is active, clears the Amazon listing
\* id and url and stores the partial status for eBay.
C21_SweepConverges ==
    (/\ SweepDone
     /\ last.pre.listing_status = "LISTED"
     /\ last.pre.ebay_listing_id # Null
     /\ GetStatus("EBAY", last.pre.ebay_listing_id) = "ACTIVE"
     /\ last.pre.amazon_listing_id # Null
     /\ GetStatus("AMAZON", last.pre.amazon_listing_id) = "ENDED")
        => /\ db.listing_status = OnlyStatus("EBAY")
           /\ db.amazon_listing_id = Null
           /\ db.amazon_listing_url = Null

\* C22: one sweep over an item that is not sold, one of whose listings the
\* marketplace reports as sold, stores the sold status for that marketplace and
\* leaves no live listing of the item on the other marketplace.
C22_SweepDetectsSale ==
    \A p \in Platforms :
        (/\ SweepDone
         /\ last.pre.listing_status \notin SoldStatuses
         /\ ListingId(last.pre, p) # Null
         /\ GetStatus(p, ListingId(last.pre, p)) = "SOLD"
         /\ ListingId(last.pre, Other(p)) # Null
         /\ GetStatus(Other(p), ListingId(last.pre, Other(p))) = "ACTIVE")
            => /\ db.listing_status = SoldStatus(p)
               /\ db.sold_platform = p
               /\ ListingId(last.pre, Other(p)) \notin live[Other(p)]

\* the marketplace answered at least one request of the call, and every answer
\* it gave says that the listing is already ended or not found
ReportedEnded ==
    /\ last.op = "end"
    /\ \E i \in 1..Len(last.answers) : last.answers[i] \in {"already_ended", "not_found"}
    /\ \A i \in 1..Len(last.answers) :
           last.answers[i] \in {"already_ended", "not_found", "raise"}

\* C23: an EndListing call that the marketplace answers with "already ended" or
\* "not found" returns success, so a second EndListing on a listing that the
\* first one ended returns success as well.
C23_EndIdempotent == ReportedEnded => last.success

ListableStatuses == {"APPROVED", "REJECTED", "REMOVED"}

\* C25: a list command is accepted if and only if the item is APPROVED,
\* REJECTED or REMOVED; in PENDING, LISTED, EBAY_ONLY, AMAZON_ONLY, EBAY_SOLD and
\* AMAZON_SOLD every list entry point refuses it, sends no CreateListing and
\* leaves the row as it was.
C25_ListOnlyFromListable ==
    last.op = "list"
        => /\ last.accepted <=> last.pre.listing_status \in ListableStatuses
           /\ last.pre.listing_status \notin ListableStatuses
                  => (db = last.pre /\ \A e \in Events : e.t # "create")

\* the rows a reader could load while the last command ran: the committed row
\* after each save and each commit
ObservedRows == {e.rec : e \in {x \in Events : x.t \in {"save", "commit"}}}

\* a listing id of the row that the row before the command did not hold
NewListingId(rec) ==
    \E p \in Platforms :
        ListingId(rec, p) # Null /\ ListingId(rec, p) # ListingId(last.pre, p)

\* C26: the writes of one list command become visible together: while a list
\* command that changes the status runs, no committed row holds a listing id
\* written by the command together with the status the item had before it.
C26_ListWritesAtomic ==
    (ListDone /\ db.listing_status # last.pre.listing_status)
        => \A rec \in ObservedRows :
               NewListingId(rec) => rec.listing_status # last.pre.listing_status

DualListDone == ListDone /\ last.entry = "dual"

\* C27: after list_product_both_platforms, every platform the result reports as
\* failed has no stored listing id, and every platform on which a listing was
\* created is reported as a success.
C27_DualResultMatchesRow ==
    DualListDone
        => \A p \in Platforms :
               /\ PlatResult(last.res, p) = "fail" => ListingId(db, p) = Null
               /\ CreateOk(p) => PlatResult(last.res, p) = "ok"

\* C28: an item has at most one live listing on each platform, and no
\* CreateListing is sent to a platform for which the item already stores a
\* listing id.
C28_OneListingPerPlatform ==
    /\ \A p \in Platforms : Cardinality(live[p]) <= 1
    /\ \A e \in Events : e.t = "create" => ListingId(last.pre, e.p) = Null

\* C29: whenever the stored status is LISTED, at least one of the two listing
\* ids of the item is set.
C29_ListedHasListing ==
    db.listing_status = "LISTED" => \E p \in Platforms : ListingId(db, p) # Null

====
